---------------------------- MODULE Spec2Model ----------------------------
(***************************************************************************)
(* A model of github.com/ihezebin/openapi: the route table built by the    *)
(* fluent API (api.go), the reflection engine RegisterModel with its       *)
(* naming engine getModelName / normalizeTypeName and the schema registry  *)
(* api.models (schema.go), and the document assembler createOpenAPI with   *)
(* the entry points Spec, Json and Yaml.                                   *)
(*                                                                         *)
(* Go's reflect.Type values are modelled by a fixed universe of type       *)
(* descriptors (Types).  Component names, package paths and type names are *)
(* sequences of one-character strings, so that the normalizer works on     *)
(* characters as the code does.                                            *)
(***************************************************************************)
EXTENDS Integers, Sequences, FiniteSets, TLC

(***************************************************************************)
(* Bounds of the model.                                                    *)
(***************************************************************************)
\* Calls of RegisterModel / Spec / Json / Yaml made on one API instance.
MaxCalls == 2
\* Go's goroutine stack, counted in nested RegisterModel frames.  Every
\* acyclic type of the universe nests less deep than this.
MaxDepth == 8
\* The clock (time.Now().UnixMicro()) is not advanced past this value.
MaxClock == 2

(***************************************************************************)
(* Strings as sequences of characters.                                     *)
(***************************************************************************)
Letters ==
  {"a","b","c","d","e","f","g","h","i","j","k","l","m","n","o","p","q","r",
   "s","t","u","v","w","x","y","z","A","B","C","D","E","F","G","H","I","J",
   "K","L","M","N","O","P","Q","R","S","T","U","V","W","X","Y","Z"}

DigitChars == <<"0","1","2","3","4","5","6","7","8","9">>

\* regexp class \w
WordChars == Letters \cup {DigitChars[i] : i \in 1..10} \cup {"_"}

\* regexp class \s
SpaceChars == {" ", "\t", "\n", "\r", "\f"}

HasPrefix(s, p) == Len(p) <= Len(s) /\ SubSeq(s, 1, Len(p)) = p

HasSuffix(s, p) ==
  Len(p) <= Len(s) /\ SubSeq(s, Len(s) - Len(p) + 1, Len(s)) = p

\* strings.TrimSuffix: removes ONE trailing occurrence of p, if there is one.
TrimSuffix(s, p) ==
  IF HasSuffix(s, p) THEN SubSeq(s, 1, Len(s) - Len(p)) ELSE s

RECURSIVE ReplaceAll(_, _, _)
\* strings.ReplaceAll for a non-empty old.
ReplaceAll(s, old, new) ==
  IF s = <<>> THEN <<>>
  ELSE IF HasPrefix(s, old)
       THEN new \o ReplaceAll(SubSeq(s, Len(old) + 1, Len(s)), old, new)
       ELSE <<Head(s)>> \o ReplaceAll(Tail(s), old, new)

RECURSIVE FormatInt(_)
\* strconv.FormatInt(n, 10) for n >= 0.
FormatInt(n) ==
  IF n < 10 THEN <<DigitChars[n + 1]>>
  ELSE FormatInt(n \div 10) \o <<DigitChars[(n % 10) + 1]>>

SeqRange(s) == {s[i] : i \in 1..Len(s)}

\* The element of a one-element set.  Only({e(x) : x \in {v}}) is e(v) with
\* v computed once: what "x := v" followed by uses of x is in the code.
Only(S) == CHOOSE x \in S : TRUE

(***************************************************************************)
(* The universe of Go types.  A descriptor holds what reflect.Type gives   *)
(* the code: Kind(), PkgPath(), Name(), Elem(), Key(), the fields, and     *)
(* whether the type implements CustomSchemaApplier.                        *)
(***************************************************************************)
NoType == "none"

PkgAB   == <<"p","/","a","-","b">>     \* package path p/a-b
PkgA_B  == <<"p","/","a","_","b">>     \* package path p/a_b
PkgSM   == <<"s","/","m">>             \* package path s/m
PkgSN   == <<"s","/","n">>             \* package path s/n
PkgTime == <<"t","i","m","e">>         \* package path time
PkgX    == <<"x">>                     \* a package whose source cannot be read

Desc(kind, pkg, name, elem, key, fields, custom) ==
  [kind |-> kind, pkg |-> pkg, name |-> name, elem |-> elem, key |-> key,
   fields |-> fields, custom |-> custom]

Basic(kind, name) == Desc(kind, <<>>, name, NoType, NoType, <<>>, "none")
Pointer(elem)     == Desc("ptr", <<>>, <<>>, elem, NoType, <<>>, "none")
Slice(elem)       == Desc("slice", <<>>, <<>>, elem, NoType, <<>>, "none")
Map(key, elem)    == Desc("map", <<>>, <<>>, elem, key, <<>>, "none")
Struct(pkg, name, fields) ==
  Desc("struct", pkg, name, NoType, NoType, fields, "none")

\* A struct field: Go name, json tag name, omitempty option, type.
Fld(name, tag, omitempty, type) ==
  [name |-> name, tag |-> tag, omitempty |-> omitempty, exported |-> TRUE,
   anonymous |-> FALSE, type |-> type]
\* An unexported field.
Unexp(name, type) ==
  [name |-> name, tag |-> "", omitempty |-> FALSE, exported |-> FALSE,
   anonymous |-> FALSE, type |-> type]
\* An anonymously embedded field (its Go name is the type's name).
Emb(name, type) ==
  [name |-> name, tag |-> "", omitempty |-> FALSE, exported |-> TRUE,
   anonymous |-> TRUE, type |-> type]

Types ==
  [ string  |-> Basic("string", <<"s","t","r","i","n","g">>),
    int     |-> Basic("int", <<"i","n","t">>),
    bool    |-> Basic("bool", <<"b","o","o","l">>),
    float64 |-> Basic("float", <<"f","l","o","a","t","6","4">>),
    any     |-> Basic("iface", <<>>),                  \* interface{}
    chanInt |-> Basic("chan", <<>>),                   \* chan int
    PtrString |-> Pointer("string"),
    PtrInt    |-> Pointer("int"),
    \* type T struct { Name string `json:"name"`; Age int `json:"age,omitempty"`
    \*   Nick *string `json:"nick"`; Opt *int `json:",omitempty"`; Plain bool
    \*   secret int }                                       (package p/a-b)
    T |-> Struct(PkgAB, <<"T">>,
           << Fld("Name", "name", FALSE, "string"),
              Fld("Age", "age", TRUE, "int"),
              Fld("Nick", "nick", FALSE, "PtrString"),
              Fld("Opt", "", TRUE, "PtrInt"),
              Fld("Plain", "", FALSE, "bool"),
              Unexp("secret", "int") >>),
    PtrT    |-> Pointer("T"),
    PtrPtrT |-> Pointer("PtrT"),
    SliceT  |-> Slice("T"),
    SliceString |-> Slice("string"),
    MapStringT  |-> Map("string", "T"),
    \* type E struct { ID string `json:"id"`; Note string `json:"note,omitempty"` }
    E |-> Struct(PkgAB, <<"E">>,
           << Fld("ID", "id", FALSE, "string"),
              Fld("Note", "note", TRUE, "string") >>),
    PtrE |-> Pointer("E"),
    \* type P struct { E; Label string `json:"label"` }
    P |-> Struct(PkgAB, <<"P">>,
           << Emb("E", "E"), Fld("Label", "label", FALSE, "string") >>),
    \* type PE struct { *E; Tag string `json:"tag"` }
    PE |-> Struct(PkgAB, <<"P","E">>,
           << Emb("E", "PtrE"), Fld("Tag", "tag", FALSE, "string") >>),
    \* type Q struct { F E `json:"f"` }
    Q |-> Struct(PkgAB, <<"Q">>, << Fld("F", "f", FALSE, "E") >>),
    \* type P2 struct { E; F E `json:"f"` }
    P2 |-> Struct(PkgAB, <<"P","2">>,
           << Emb("E", "E"), Fld("F", "f", FALSE, "E") >>),
    \* type Sh struct { E; ID *string `json:"id"` }   (ID shadows E.ID)
    Sh |-> Struct(PkgAB, <<"S","h">>,
           << Emb("E", "E"), Fld("ID", "id", FALSE, "PtrString") >>),
    \* type O struct { Omitempty string `json:"omitempty"` }
    \* (the tag gives the NAME "omitempty" and no option)
    O |-> Struct(PkgAB, <<"O">>,
           << Fld("Omitempty", "omitempty", FALSE, "string") >>),
    \* type A struct { Next *A `json:"next"` }
    A    |-> Struct(PkgAB, <<"A">>, << Fld("Next", "next", FALSE, "PtrA") >>),
    PtrA |-> Pointer("A"),
    \* type L struct { Kids []L `json:"kids"` }
    L      |-> Struct(PkgAB, <<"L">>, << Fld("Kids", "kids", FALSE, "SliceL") >>),
    SliceL |-> Slice("L"),
    \* type B struct { Cs []C `json:"cs"` };  type C struct { B *B `json:"b"` }
    B      |-> Struct(PkgAB, <<"B">>, << Fld("Cs", "cs", FALSE, "SliceC") >>),
    C      |-> Struct(PkgAB, <<"C">>, << Fld("B", "b", FALSE, "PtrB") >>),
    SliceC |-> Slice("C"),
    PtrB   |-> Pointer("B"),
    \* maps with a non-string key, bare and nested
    MapIntString |-> Map("int", "string"),
    SliceBadMap  |-> Slice("MapIntString"),
    PtrBadMap    |-> Pointer("MapIntString"),
    MapStringBadMap |-> Map("string", "MapIntString"),
    \* type W struct { Ok string `json:"ok"`; M map[int]string `json:"m"` }
    W |-> Struct(PkgAB, <<"W">>,
           << Fld("Ok", "ok", FALSE, "string"),
              Fld("M", "m", FALSE, "MapIntString") >>),
    \* type X struct { Ch chan int `json:"ch"`; M map[int]string `json:"m"` }
    X |-> Struct(PkgAB, <<"X">>,
           << Fld("Ch", "ch", FALSE, "chanInt"),
              Fld("M", "m", FALSE, "MapIntString") >>),
    \* type T struct { X int `json:"x"` }                  (package p/a_b)
    T2 |-> Struct(PkgA_B, <<"T">>, << Fld("X", "x", FALSE, "int") >>),
    \* type TPtr struct { Y int `json:"y"` }               (package p/a-b)
    TPtr |-> Struct(PkgAB, <<"T","P","t","r">>,
              << Fld("Y", "y", FALSE, "int") >>),
    \* type U struct { M int `json:"m"` }                  (package s/m)
    U1 |-> Struct(PkgSM, <<"U">>, << Fld("M", "m", FALSE, "int") >>),
    \* type U struct { N int `json:"n"` }                  (package s/n)
    U2 |-> Struct(PkgSN, <<"U">>, << Fld("N", "n", FALSE, "int") >>),
    \* type Color string, with an ApplyCustomSchema method that sets enum values
    Color |-> Desc("string", PkgAB, <<"C","o","l","o","r">>, NoType, NoType,
                   <<>>, "enum"),
    \* struct { Message string `json:"message"` }            (no declared name)
    Anon1 |-> Struct(<<>>, <<>>,
                << Fld("Message", "message", FALSE, "string") >>),
    \* struct { Code int `json:"code"` }                     (no declared name)
    Anon2 |-> Struct(<<>>, <<>>, << Fld("Code", "code", FALSE, "int") >>),
    \* type Two struct { A struct { Message string `json:"message"` } `json:"a"`
    \*                   B struct { Code int `json:"code"` } `json:"b"` }
    Two |-> Struct(PkgAB, <<"T","w","o">>,
              << Fld("A", "a", FALSE, "Anon1"), Fld("B", "b", FALSE, "Anon2") >>),
    \* time.Time and *time.Time, the default known types
    Time    |-> Struct(PkgTime, <<"T","i","m","e">>, << Unexp("wall", "int") >>),
    PtrTime |-> Pointer("Time"),
    \* type V struct { N int `json:"n"` }     (package x, which cannot be read)
    V |-> Struct(PkgX, <<"V">>, << Fld("N", "n", FALSE, "int") >>)
  ]

TypeIds == DOMAIN Types


(***************************************************************************)
(* The naming engine: normalizer, normalizeTypeName, getModelName.         *)
(* The api record carries the API instance's state through a call:         *)
(*   models  the schema registry api.models (component name -> schema),    *)
(*   strip   api.StripPkgPaths,                                            *)
(*   now     the value the clock gave at its last reading,                 *)
(*   adv     by how much the clock advances before each reading in this    *)
(*           call (0: the readings fall in the same microsecond).          *)
(***************************************************************************)
\* One replacement pair of the strings.Replacer, as the replacement text.
NormalizerChar(c) ==
  CASE c \in {"/", ".", "[", "]", "-"} -> <<"_">>
    [] c = "·" -> <<".">>
    [] c \in {" ", "{", "}", "(", ")", "*"} -> <<>>
    [] OTHER -> <<c>>

RECURSIVE normalizer(_)
normalizer(s) ==
  IF s = <<>> THEN <<>> ELSE NormalizerChar(Head(s)) \o normalizer(Tail(s))

BracketStruct == <<"[","s","t","r","u","c","t">>

\* The first index at or after i that holds no \s character (Len+1 if none).
RECURSIVE SkipSpace(_, _)
SkipSpace(s, i) ==
  IF i <= Len(s) /\ s[i] \in SpaceChars THEN SkipSpace(s, i + 1) ELSE i

\* The indexes e > from with s[e] = "}" and s[e+1] = "]".
CloseAfter(s, from) ==
  {e \in (from + 1)..(Len(s) - 1) : s[e] = "}" /\ s[e + 1] = "]"}

\* The indexes i of a "[" at which (\w+)\[struct\s*{.*}\] can match with the
\* word ending at i-1.
AnonArgStarts(s) ==
  {i \in 2..Len(s) :
     /\ s[i - 1] \in WordChars
     /\ i + 6 <= Len(s)
     /\ SubSeq(s, i, i + 6) = BracketStruct
     /\ LET j == SkipSpace(s, i + 7)
        IN j <= Len(s) /\ s[j] = "{" /\ CloseAfter(s, j) # {}}

SetMin(S) == CHOOSE x \in S : \A y \in S : x <= y
SetMax(S) == CHOOSE x \in S : \A y \in S : y <= x

\* re.MatchString(name)
AnonArgMatches(name) == AnonArgStarts(name) # {}

\* re.ReplaceAllString(name, "${1}[struct]"): the leftmost match runs, .* being
\* greedy, to the last "}]" of the name.
AnonArgReplace(name) ==
  LET i == SetMin(AnonArgStarts(name))
      j == SkipSpace(name, i + 7)
      e == SetMax(CloseAfter(name, j))
  IN SubSeq(name, 1, i - 1) \o BracketStruct \o <<"]">>
       \o SubSeq(name, e + 2, Len(name))

\* Every name stamped with a reading of the clock: a name that is not a
\* function of the package path and the type name.
StampedName(api, pkgPath, name) ==
  [name |-> normalizer(name) \o <<"_">> \o FormatInt(api.now + api.adv),
   now |-> api.now + api.adv]

normalizeTypeName(api, pkgPath, name) ==
  LET omitPackage == \E k \in 1..Len(api.strip) : HasPrefix(pkgPath, api.strip[k])
      matched == AnonArgMatches(name)
      t1 == IF matched THEN api.now + api.adv ELSE api.now
      name1 == IF matched
               THEN ReplaceAll(AnonArgReplace(name), BracketStruct \o <<"]">>,
                               BracketStruct \o <<"_">> \o FormatInt(t1) \o <<"]">>)
               ELSE name
      typeName == IF omitPackage \/ pkgPath = <<>>
                  THEN normalizer(name1)
                  ELSE normalizer(pkgPath \o <<"/">> \o name1)
  IN Only({[name |-> TrimSuffix(TrimSuffix(n, <<"_">>), <<".">>), now |-> t1]
           : n \in {typeName}})

AnonymousType == <<"A","n","o","n","y","m","o","u","s","T","y","p","e">>

StructPrefix == <<"S","t","r","u","c","t","_">>

\* Returns the component name and the clock after the call.
getModelName(api, t) ==
  Only({Only({Only({Only({
    [name |-> IF typeName = <<>> THEN AnonymousType ELSE r.name, now |-> r.now]
    : r \in {normalizeTypeName(api1, pkgPath, typeName)}})
    : typeName \in {IF anon THEN StructPrefix \o FormatInt(api1.now) ELSE n2}})
    : anon \in {kind = "struct" /\ n2 = <<>>},
      api1 \in {IF kind = "struct" /\ n2 = <<>>
                THEN [api EXCEPT !.now = @ + api.adv] ELSE api}})
    : kind \in {Types[t].kind},
      pkgPath \in {Only({IF d.kind = "ptr" THEN Types[d.elem].pkg ELSE d.pkg
                         : d \in {Types[t]}})},
      n2 \in {Only({IF d.kind = "ptr" THEN Types[d.elem].name \o <<"P","t","r">>
                    ELSE IF d.kind = "map"
                    THEN <<"m","a","p","[">> \o Types[d.key].name \o <<"]">>
                           \o Types[d.elem].name
                    ELSE d.name
                    : d \in {Types[t]}})}})

(***************************************************************************)
(* Schemas (openapi3.Schema) and schema references (openapi3.SchemaRef).   *)
(* origin records the type a schema was derived for; it is not a field of  *)
(* the Go value, it identifies the schema object.                          *)
(***************************************************************************)
\* A SchemaRef is [isRef |-> TRUE, name |-> n] for "#/components/schemas/n",
\* [isRef |-> FALSE, schema |-> s] for an inline value, or NoRef for nil.
NoRef == [isRef |-> FALSE]

NoSchema == [type |-> "nil"]

NewSchema(type, origin) ==
  [type |-> type, format |-> "", nullable |-> FALSE, props |-> <<>>,
   required |-> <<>>, items |-> NoRef, addl |-> NoRef, addlHas |-> FALSE,
   enum |-> <<>>, origin |-> origin, trace |-> <<>>]

\* What was done to a schema object, in order, is kept in its trace (not a
\* field of the Go value): <<"hook", t>>, <<"custom", t>> and <<"opt", o>>
\* for the customisations RegisterModel(t) applied to it, <<"decide", t>> for
\* RegisterModel(t) deciding whether to register it.
Traced(event, s) == [s EXCEPT !.trace = Append(@, event)]

shouldBeReferenced(schema) ==
  \/ schema.type = "object" /\ schema.addl = NoRef
  \/ Len(schema.enum) > 0

getSchemaReferenceOrValue(name, schema) ==
  IF shouldBeReferenced(schema)
  THEN [isRef |-> TRUE, name |-> name]
  ELSE [isRef |-> FALSE, schema |-> schema]

isFieldRequired(isPointer, hasOmitEmpty) == ~(isPointer \/ hasOmitEmpty)

\* defaultKnownTypes
KnownTypes ==
  [ Time    |-> [NewSchema("string", "Time") EXCEPT !.format = "date-time"],
    PtrTime |-> [NewSchema("string", "PtrTime") EXCEPT !.format = "date-time",
                                                       !.nullable = TRUE] ]

\* ModelOpts: WithNullable() and WithEnumValues(...) as the call-site options.
ApplyOpt(opt, s) ==
  Traced(<<"opt", opt>>,
    CASE opt = "nullable" -> [s EXCEPT !.nullable = TRUE]
      [] opt = "enum" -> [s EXCEPT !.type = "string", !.enum = @ \o <<"v">>]
      [] OTHER -> s)

RECURSIVE ApplyOpts(_, _)
ApplyOpts(opts, s) ==
  IF opts = <<>> THEN s ELSE ApplyOpts(Tail(opts), ApplyOpt(Head(opts), s))

\* Model.ApplyCustomSchema: the type's own ApplyCustomSchema method, if any.
ApplyCustomSchema(t, s) ==
  IF Types[t].custom = "enum"
  THEN Traced(<<"custom", t>>, [s EXCEPT !.enum = @ \o <<"red", "green">>])
  ELSE s

(***************************************************************************)
(* Errors are chains: fmt.Errorf("...: %w", err) puts its own message in   *)
(* front of the chain it wraps.  The empty chain is nil.                   *)
(***************************************************************************)
NoErr == <<>>

ErrMapKey(keyType) == <<"maps must have a string key", keyType>>
ErrUnsupported(t)  == <<"unsupported type", t>>
ErrComments        == <<"package comments cannot be read">>
Wrap(msg, err)     == <<msg>> \o err

\* api.models with one entry set, and with one entry deleted.
SetModel(models, name, schema) ==
  [n \in DOMAIN models \cup {name} |-> IF n = name THEN schema ELSE models[n]]

\* delete(api.models, name) left out: the registry as it is.
KeepModel(models, name) == models

DeleteModel(models, name) == [n \in DOMAIN models \ {name} |-> models[n]]

\* What a RegisterModel call gives back: the API instance's state after it,
\* the three results, and whether the goroutine stack overflowed (which ends
\* the process: no result is returned then).
Returned(api, name, schema, err) ==
  [api |-> api, name |-> name, schema |-> schema, err |-> err,
   overflow |-> FALSE]

StackOverflow(api) ==
  [api |-> api, name |-> <<>>, schema |-> NoSchema, err |-> NoErr,
   overflow |-> TRUE]

\* parser.Get(pkg): whether reading the package's comments fails.
CommentLookupFails(pkg) == pkg = PkgX

\* api.ApplyCustomSchemaToType, when set: a hook that gives every schema a
\* format.
ApplyCustomSchemaToType(api, t, s) ==
  IF api.hook = "none" THEN s
  ELSE Traced(<<"hook", t>>, [s EXCEPT !.format = api.hook])

\* "After all processing, register the type if required."
RegisterIfReferenced(api, name, schema) ==
  IF shouldBeReferenced(schema)
  THEN [api EXCEPT !.models = SetModel(@, name, schema)]
  ELSE api

\* The schema of the kinds that need no recursion (nil for the others).
LeafSchema(t) ==
  LET k == Types[t].kind
  IN CASE k = "iface"  -> [NewSchema("object", t) EXCEPT !.addlHas = TRUE]
       [] k = "string" -> NewSchema("string", t)
       [] k = "int"    -> NewSchema("integer", t)
       [] k = "float"  -> NewSchema("number", t)
       [] k = "bool"   -> NewSchema("boolean", t)
       [] OTHER        -> NoSchema

RECURSIVE RegisterModel(_, _, _, _)
RECURSIVE StructFields(_, _, _, _, _, _)
RECURSIVE Derive(_, _, _, _)

\* The loop over the fields of struct type t, from field i on.  Gives the
\* API state, the schema built so far, the error and the overflow flag.
StructFields(api, t, i, schema, name, depth) ==
  LET d == Types[t]
  IN IF i > Len(d.fields)
     THEN Returned(api, name, schema, NoErr)
     ELSE
       LET f == d.fields[i]
           fieldName == IF f.tag = "" THEN f.name ELSE f.tag
       IN IF ~f.exported
          THEN StructFields(api, t, i + 1, schema, name, depth)
          ELSE Only({Only({
          LET alreadyExists == gn.name \in DOMAIN api.models
          IN
          IF r.overflow THEN StackOverflow(r.api)
          ELSE IF r.err # NoErr
          THEN Returned(r.api, name, schema,
                        Wrap("error getting schema for field", r.err))
          ELSE IF f.anonymous
          THEN LET api2 == IF ~alreadyExists
                           THEN [r.api EXCEPT !.models = DeleteModel(@, r.name)]
                           ELSE r.api
                   schema2 == [schema EXCEPT
                                 !.props = r.schema.props @@ @,
                                 !.required = @ \o r.schema.required]
               IN StructFields(api2, t, i + 1, schema2, name, depth)
          ELSE LET ref == getSchemaReferenceOrValue(r.name, r.schema)
                   isPtr == Types[f.type].kind = "ptr"
                   hasOmitEmptySet == f.omitempty \/ f.tag = "omitempty"
                   schema2 == [schema EXCEPT
                                 !.props = (fieldName :> ref) @@ @,
                                 !.required =
                                   IF isFieldRequired(isPtr, hasOmitEmptySet)
                                   THEN Append(@, fieldName) ELSE @]
               IN IF ~ref.isRef /\ CommentLookupFails(d.pkg)
                  THEN Returned(r.api, name, schema,
                                Wrap("failed to get comments for field",
                                     ErrComments))
                  ELSE StructFields(
                         IF ref.isRef THEN r.api
                         ELSE [r.api EXCEPT !.comments = @ \cup {d.pkg}],
                         t, i + 1, schema2, name, depth)
            : r \in {RegisterModel([api EXCEPT !.now = gn.now], f.type, <<>>,
                                   depth + 1)}})
            : gn \in {getModelName(api, f.type)}})

\* The switch on t.Kind().  done says that the switch returned from
\* RegisterModel itself (an error return inside a case).
Derive(api, t, name, depth) ==
  LET d == Types[t]
      Go(r) == r @@ [done |-> FALSE]
      Stop(r) == r @@ [done |-> TRUE]
  IN CASE d.kind \in {"slice", "map"} ->
            IF d.kind = "map" /\ Types[d.key].kind # "string"
            THEN Stop(Returned(api, name, NoSchema, ErrMapKey(d.key)))
            ELSE Only({
              LET ref == getSchemaReferenceOrValue(r.name, r.schema)
                  base == [NewSchema(IF d.kind = "map" THEN "object" ELSE "array", t)
                             EXCEPT !.nullable = TRUE]
              IN IF r.overflow THEN Stop(StackOverflow(r.api))
                 ELSE IF r.err # NoErr
                 THEN Stop(Returned(r.api, name, NoSchema,
                        Wrap(IF d.kind = "map"
                             THEN "error getting schema of map value element"
                             ELSE "error getting schema of slice element",
                             r.err)))
                 ELSE Go(Returned(r.api, name,
                           IF d.kind = "map" THEN [base EXCEPT !.addl = ref]
                           ELSE [base EXCEPT !.items = ref],
                           NoErr))
              : r \in {RegisterModel(api, d.elem, <<>>, depth + 1)}})
       [] d.kind = "ptr" ->
            \* name, schema, err = api.RegisterModel(elem, WithNullable())
            Only({IF r.overflow THEN Stop(r) ELSE Go(r)
                  : r \in {RegisterModel(api, d.elem, <<"nullable">>,
                                         depth + 1)}})
       [] d.kind = "struct" ->
            Only({IF r.overflow \/ r.err # NoErr THEN Stop(r) ELSE Go(r)
                  : r \in {StructFields(api, t, 1, NewSchema("object", t),
                                        name, depth)}})
       [] OTHER -> Go(Returned(api, name, LeafSchema(t), NoErr))

RegisterModel(api, t, opts, depth) ==
  IF depth > MaxDepth THEN StackOverflow(api)
  ELSE
    Only({
       LET api1 == [api EXCEPT !.now = gn.now]
       IN
       IF gn.name \in DOMAIN api1.models
       THEN \* "If we've already got the schema, return it."
            Returned(api1, gn.name, api1.models[gn.name], NoErr)
       ELSE IF t \in DOMAIN KnownTypes
       THEN Returned(RegisterIfReferenced(api1, gn.name, KnownTypes[t]),
                     gn.name, KnownTypes[t], NoErr)
       ELSE Only({
         LET s1 == Traced(<<"decide", t>>,
                     ApplyOpts(opts,
                       ApplyCustomSchema(t,
                         ApplyCustomSchemaToType(r.api, t, r.schema))))
         IN IF r.done THEN [x \in DOMAIN r \ {"done"} |-> r[x]]
            ELSE IF r.schema = NoSchema
            THEN Returned(r.api, r.name, NoSchema, ErrUnsupported(t))
            ELSE Returned(RegisterIfReferenced(r.api, r.name, s1),
                          r.name, s1, r.err)
         : r \in {Derive(api1, t, gn.name, depth)}})
       : gn \in {getModelName(api, t)}})

(***************************************************************************)
(* The route table (api.Routes) and the document assembler createOpenAPI.  *)
(* routes maps <<pattern, method>> to the route's models: the request      *)
(* model (NoType when none is set) and the response model of each status.  *)
(* The Go maps are iterated in an order the runtime picks: ord gives the   *)
(* order of the patterns, of each pattern's methods and of each route's    *)
(* response statuses.                                                      *)
(***************************************************************************)
\* Params of a new route: the three maps from a parameter's name to what
\* was declared for it.
NoParams == [path |-> <<>>, query |-> <<>>, header |-> <<>>]

NewRoute == [request |-> NoType, responses |-> <<>>, params |-> NoParams]

PatternsOf(routes) == {k[1] : k \in DOMAIN routes}

MethodsOf(routes, pattern) == {k[2] : k \in {x \in DOMAIN routes : x[1] = pattern}}

Perms(S) ==
  {q \in [1..Cardinality(S) -> S] : \A i, j \in DOMAIN q : q[i] = q[j] => i = j}

MethodOrders(routes) ==
  {f \in [PatternsOf(routes) ->
            UNION {Perms(MethodsOf(routes, p)) : p \in PatternsOf(routes)}] :
     \A p \in PatternsOf(routes) : f[p] \in Perms(MethodsOf(routes, p))}

StatusOrders(routes) ==
  {f \in [DOMAIN routes ->
            UNION {Perms(DOMAIN routes[k].responses) : k \in DOMAIN routes}] :
     \A k \in DOMAIN routes : f[k] \in Perms(DOMAIN routes[k].responses)}

Orders(routes) ==
  [patterns : Perms(PatternsOf(routes)), methods : MethodOrders(routes),
   statuses : StatusOrders(routes)]

\* newSpec: the empty document.
newSpec == [openapi |-> "3.0.0", paths |-> <<>>, components |-> <<>>]

NewOperation == [request |-> NoRef, responses |-> <<>>, parameters |-> <<>>]

\* The characters of parameter names, in the order of their bytes.
ByteOrder ==
  <<"0","1","2","3","4","5","6","7","8","9",
    "A","B","C","D","E","F","G","H","I","J","K","L","M","N","O","P","Q","R",
    "S","T","U","V","W","X","Y","Z","_",
    "a","b","c","d","e","f","g","h","i","j","k","l","m","n","o","p","q","r",
    "s","t","u","v","w","x","y","z">>

RECURSIVE StrLess(_, _)
\* Go's a < b on strings: byte by byte, a proper prefix first.
StrLess(a, b) ==
  LET Byte(c) == CHOOSE i \in 1..Len(ByteOrder) : ByteOrder[i] = c
  IN IF b = <<>> THEN FALSE
     ELSE IF a = <<>> THEN TRUE
     ELSE IF Head(a) = Head(b) THEN StrLess(Tail(a), Tail(b))
     ELSE Byte(Head(a)) < Byte(Head(b))

RECURSIVE InsertKey(_, _)
InsertKey(sorted, k) ==
  IF sorted = <<>> THEN <<k>>
  ELSE IF StrLess(k, Head(sorted)) THEN <<k>> \o sorted
  ELSE <<Head(sorted)>> \o InsertKey(Tail(sorted), k)

\* sort.Slice left out: the keys as the map's iteration gave them.
Unsorted(op) == op

RECURSIVE SortSlice(_)
\* sort.Slice(op, func(i, j int) bool { return op[i] < op[j] })
SortSlice(op) ==
  IF op = <<>> THEN <<>> ELSE InsertKey(SortSlice(Tail(op)), Head(op))

RECURSIVE RangeKeys(_)
\* "for k := range m { op = append(op, k) }": the keys in an order the
\* runtime picks.
RangeKeys(keys) ==
  IF keys = {} THEN <<>>
  ELSE Only({<<k>> \o RangeKeys(keys \ {k}) : k \in {CHOOSE x \in keys : TRUE}})

getSortedKeys(m) == SortSlice(RangeKeys(DOMAIN m))

newPrimitiveSchema(paramType) ==
  [type |-> IF paramType = "" THEN "string" ELSE paramType, pattern |-> ""]

\* openapi3.NewQueryParameter / NewPathParameter / NewHeaderParameter, with
\* the description and the schema set.
NewParameter(in, name, v, ps) ==
  [in |-> in, name |-> name, description |-> v.description,
   required |-> in = "path", allowEmpty |-> FALSE, deprecated |-> FALSE,
   schema |-> ps]

\* v.ApplyCustomSchema(param), when the declaration carries one.
ApplyParamCustomSchema(v, param) ==
  IF v.custom THEN [param EXCEPT !.deprecated = TRUE] ELSE param

QueryParameter(k, v) ==
  ApplyParamCustomSchema(v,
    [NewParameter("query", k, v,
                  [newPrimitiveSchema(v.type) EXCEPT !.pattern = v.regexp])
       EXCEPT !.required = v.required, !.allowEmpty = v.allowEmpty])

PathParameter(k, v) ==
  ApplyParamCustomSchema(v,
    NewParameter("path", k, v,
                 [newPrimitiveSchema(v.type) EXCEPT !.pattern = v.regexp]))

HeaderParameter(k, v) ==
  ApplyParamCustomSchema(v,
    [NewParameter("header", k, v, newPrimitiveSchema(v.type))
       EXCEPT !.required = v.required])

\* "Add the query params", "Add the route params", "Add the header params".
AddParameters(op, params) ==
  Only({[op EXCEPT !.parameters =
           @ \o [i \in 1..Len(qs) |-> QueryParameter(qs[i], params.query[qs[i]])]
             \o [i \in 1..Len(ps) |-> PathParameter(ps[i], params.path[ps[i]])]
             \o [i \in 1..Len(hs) |-> HeaderParameter(hs[i], params.header[hs[i]])]]
        : qs \in {getSortedKeys(params.query)},
          ps \in {getSortedKeys(params.path)},
          hs \in {getSortedKeys(params.header)}})

\* What the assembler carries: the API state, the document, the error, the
\* overflow flag, and the models resolved so far with each one's error.
Assembled(api, doc, err, overflow, visits) ==
  [api |-> api, doc |-> doc, err |-> err, overflow |-> overflow,
   visits |-> visits]

RECURSIVE VisitResponses(_, _, _, _, _)
\* "Handle response types": the statuses of one route, in order sts.
\* cur is the operation under construction.
VisitResponses(a, cur, route, sts, depth) ==
  IF sts = <<>> \/ a.err # NoErr \/ a.overflow THEN [a |-> a, op |-> cur]
  ELSE
    Only({
    LET status == Head(sts)
        v == Append(a.visits, [type |-> route.responses[status], err |-> r.err])
    IN IF r.overflow
       THEN [a |-> Assembled(r.api, a.doc, NoErr, TRUE, a.visits), op |-> cur]
       ELSE IF r.err # NoErr
       THEN [a |-> Assembled(r.api, a.doc, r.err, FALSE, v), op |-> cur]
       ELSE VisitResponses(
              Assembled(r.api, a.doc, NoErr, FALSE, v),
              [cur EXCEPT !.responses =
                 (status :> getSchemaReferenceOrValue(r.name, r.schema)) @@ @],
              route, Tail(sts), depth)
    : r \in {RegisterModel(a.api, route.responses[Head(sts)], <<>>, depth)}})

\* "Handle request types", then the responses, of one route.
VisitRoute(a, route, sts) ==
  Only({
  IF route.request = NoType
  THEN VisitResponses(a, op, route, sts, 1)
  ELSE
    Only({
    LET v == Append(a.visits, [type |-> route.request, err |-> r.err])
    IN IF r.overflow
       THEN [a |-> Assembled(r.api, a.doc, NoErr, TRUE, a.visits),
             op |-> op]
       ELSE IF r.err # NoErr
       THEN [a |-> Assembled(r.api, a.doc, r.err, FALSE, v),
             op |-> op]
       ELSE VisitResponses(
              Assembled(r.api, a.doc, NoErr, FALSE, v),
              [op EXCEPT
                 !.request = getSchemaReferenceOrValue(r.name, r.schema)],
              route, sts, 1)
    : r \in {RegisterModel(a.api, route.request, <<>>, 1)}})
  : op \in {AddParameters(NewOperation, route.params)}})

RECURSIVE VisitMethods(_, _, _, _, _, _)
\* The methods of one pattern, in order ms.  path is the PathItem so far.
VisitMethods(a, path, routes, pattern, ms, ord) ==
  IF ms = <<>> \/ a.err # NoErr \/ a.overflow THEN [a |-> a, path |-> path]
  ELSE
    Only({
       IF r.a.err # NoErr \/ r.a.overflow THEN [a |-> r.a, path |-> path]
       ELSE VisitMethods(r.a, (Head(ms) :> r.op) @@ path, routes, pattern,
                         Tail(ms), ord)
       : r \in {VisitRoute(a, routes[<<pattern, Head(ms)>>],
                           ord.statuses[<<pattern, Head(ms)>>])}})

\* "Populate the OpenAPI schemas from the models."
CopyModels(components, models) == models @@ components

RECURSIVE VisitPatterns(_, _, _, _)
\* "Add all the routes": the patterns, in order ps.
VisitPatterns(a, routes, ps, ord) ==
  IF ps = <<>> \/ a.err # NoErr \/ a.overflow THEN a
  ELSE
    Only({
    LET doc1 == [r.a.doc EXCEPT
                   !.components = CopyModels(@, r.a.api.models),
                   !.paths = (Head(ps) :> r.path) @@ @]
    IN IF r.a.err # NoErr \/ r.a.overflow THEN r.a
       ELSE VisitPatterns([r.a EXCEPT !.doc = doc1], routes, Tail(ps), ord)
    : r \in {VisitMethods(a, <<>>, routes, Head(ps), ord.methods[Head(ps)],
                          ord)}})

RECURSIVE SchemaRefs(_)
\* The component names a schema refers to, through its properties, items
\* and additionalProperties, inline schemas included.
RefNames(ref) ==
  IF ref.isRef THEN {ref.name}
  ELSE IF "schema" \in DOMAIN ref THEN SchemaRefs(ref.schema) ELSE {}

SchemaRefs(s) ==
  UNION ({RefNames(s.props[n]) : n \in DOMAIN s.props}
           \cup {RefNames(s.items), RefNames(s.addl)})

\* The operations of the document.
DocOps(doc) ==
  UNION {{doc.paths[p][m] : m \in DOMAIN doc.paths[p]} : p \in DOMAIN doc.paths}

\* Every component name the document refers to.
DocRefs(doc) ==
  UNION ({SchemaRefs(doc.components[n]) : n \in DOMAIN doc.components}
    \cup {RefNames(op.request) : op \in DocOps(doc)}
    \cup {UNION {RefNames(op.responses[st]) : st \in DOMAIN op.responses} :
            op \in DocOps(doc)})

\* The references loader.ResolveRefsIn cannot resolve.
Dangling(doc) == DocRefs(doc) \ DOMAIN doc.components

ErrResolve == <<"failed to resolve, due to external references">>

createOpenAPI(api, routes, ord) ==
  Only({
     IF a.overflow \/ a.err # NoErr THEN a
     ELSE IF Dangling(a.doc) # {}
     THEN [a EXCEPT !.err = Wrap(ErrResolve[1], <<"not found">>)]
     ELSE a
     : a \in {VisitPatterns(Assembled(api, newSpec, NoErr, FALSE, <<>>),
                            routes, ord.patterns, ord)}})

(***************************************************************************)
(* The state of one API instance and of its caller.                        *)
(***************************************************************************)
VARIABLES
  models,    \* api.models: the schema registry
  strip,     \* api.StripPkgPaths
  hook,      \* api.ApplyCustomSchemaToType ("none" when nil)
  comments,  \* api.comments: the packages whose comments are loaded
  routes,    \* api.Routes
  now,       \* the clock's last reading
  ret,       \* what the last call returned, and the registry before it
  calls      \* the number of calls made

vars == <<models, strip, hook, comments, routes, now, ret, calls>>

NoBytes == [present |-> FALSE]

NoRet ==
  [op |-> "none", arg |-> NoType, opts |-> <<>>, name |-> <<>>,
   schema |-> NoSchema, err |-> NoErr, doc |-> newSpec, bytes |-> NoBytes,
   pre |-> <<>>, visits |-> <<>>, pkgPath |-> <<>>, typeName |-> <<>>,
   prev |-> <<>>]
\* ret.pre is the registry as the call found it; ret.prev holds, when the
\* call before the last one was of the same kind, what that call returned.

\* The API instance as a call finds it; adv is the clock's behaviour
\* during the call.
Api(adv) ==
  [models |-> models, strip |-> strip, hook |-> hook, comments |-> comments,
   now |-> now, adv |-> adv]

\* The types a type refers to directly, and all it reaches.
Refers(t) ==
  LET d == Types[t]
  IN ({d.elem, d.key} \cup {d.fields[i].type : i \in 1..Len(d.fields)})
       \ {NoType}

RECURSIVE Closure(_)
Closure(S) ==
  LET more == S \cup UNION {Refers(t) : t \in S}
  IN IF more = S THEN S ELSE Closure(more)

Reach(t) == Closure({t})

\* The types whose component name is made with a reading of the clock.
ClockNamed ==
  {t \in TypeIds : \/ Types[t].kind = "struct" /\ Types[t].name = <<>>
                   \/ AnonArgMatches(Types[t].name)}

\* The inputs the model draws from.
ResponseSlots ==
  {<<"/a", "GET", 200>>, <<"/a", "GET", 500>>, <<"/b", "POST", 200>>}
RequestSlots == {<<"/a", "GET">>}
\* The types given to routes as response models, and as request models.
RouteTypes == {"E", "PE", "PtrE", "MapIntString", "any"}
RequestTypes == {"SliceString", "MapIntString"}
\* The types given to RegisterModel directly, beside a route table.
DirectTypes == {"E"}
\* The types given to RegisterModel directly, on an API without routes.
ModelTypes ==
  {"string", "T", "PtrT", "PtrPtrT", "SliceT", "SliceString", "MapStringT",
   "E", "P", "PE", "Q", "P2", "Sh", "O", "A", "L", "B", "MapIntString",
   "SliceBadMap", "PtrBadMap", "MapStringBadMap", "W", "X", "T2", "TPtr",
   "U1", "U2", "Color", "any", "Anon1", "Two", "Time", "V", "chanInt"}
\* The types registered with a call-site option, and the options.
OptionTypes == {"T", "string"}
OptChoices == {<<"nullable">>, <<"enum">>}
StripChoices == {<<<<"s">>>>}
\* The clock's behaviours worth telling apart in a call that resolves ts.
AdvChoices(ts) ==
  IF now < MaxClock /\ (UNION {Reach(t) : t \in ts}) \cap ClockNamed # {}
  THEN {0, 1} ELSE {0}

RouteModels ==
  UNION {{routes[k].request} \cup {routes[k].responses[st] :
                                     st \in DOMAIN routes[k].responses} :
         k \in DOMAIN routes} \ {NoType}

Init ==
  /\ models = <<>>
  /\ strip = <<>>
  /\ hook = "none"
  /\ comments = {}
  /\ routes = <<>>
  /\ now = 0
  /\ ret = NoRet
  /\ calls = 0

Alive == ret.op # "crash"

\* api.StripPkgPaths = paths, set on the new instance.
SetStripPkgPaths(paths) ==
  /\ Alive /\ calls = 0 /\ routes = <<>> /\ strip = <<>>
  /\ strip' = paths
  /\ UNCHANGED <<models, hook, comments, routes, now, ret, calls>>

\* api.Route(method, pattern).HasResponseModel(status, Model{t})
HasResponseModel(pattern, method, status, t) ==
  /\ Alive /\ calls = 0
  /\ LET key == <<pattern, method>>
         route == IF key \in DOMAIN routes THEN routes[key] ELSE NewRoute
     IN routes' = (key :> [route EXCEPT !.responses = (status :> t) @@ @])
                    @@ routes
  /\ UNCHANGED <<models, strip, hook, comments, now, ret, calls>>

\* api.Route(method, pattern).HasRequestModel(Model{t})
HasRequestModel(pattern, method, t) ==
  /\ Alive /\ calls = 0
  /\ <<pattern, method>> \in DOMAIN routes
  /\ routes' = [routes EXCEPT ![<<pattern, method>>].request = t]
  /\ UNCHANGED <<models, strip, hook, comments, now, ret, calls>>

\* The process dies of the stack overflow: nothing is returned.
Crash(op, arg) == [NoRet EXCEPT !.op = "crash", !.arg = arg, !.pre = models]

\* name, schema, err := api.RegisterModel(Model{t}, opts...)
CallRegisterModel(t, opts, adv) ==
  /\ Alive /\ calls < MaxCalls
  /\ \E r \in {RegisterModel(Api(adv), t, opts, 1)} :
        IF r.overflow
        THEN /\ ret' = Crash("RegisterModel", t)
             /\ UNCHANGED <<models, comments, now>>
        ELSE /\ models' = r.api.models
             /\ comments' = r.api.comments
             /\ now' = r.api.now
             /\ ret' = [NoRet EXCEPT !.op = "RegisterModel", !.arg = t,
                                     !.opts = opts, !.name = r.name,
                                     !.schema = r.schema, !.err = r.err,
                                     !.pre = models]
  /\ calls' = calls + 1
  /\ UNCHANGED <<strip, hook, routes>>

\* The common part of Spec, Json and Yaml: a is what createOpenAPI gave.
Generated(op, a, bytes) ==
  /\ IF a.overflow
     THEN /\ ret' = Crash(op, NoType)
          /\ UNCHANGED <<models, comments, now>>
     ELSE /\ models' = a.api.models
          /\ comments' = a.api.comments
          /\ now' = a.api.now
          /\ ret' = [NoRet EXCEPT
                       !.op = op, !.err = a.err, !.doc = a.doc,
                       !.bytes = bytes, !.pre = models, !.visits = a.visits,
                       !.prev = IF ret.op \in {"Spec", "Json", "Yaml"}
                                THEN <<[op |-> ret.op, doc |-> ret.doc,
                                        err |-> ret.err]>>
                                ELSE <<>>]
  /\ calls' = calls + 1
  /\ UNCHANGED <<strip, hook, routes>>

\* spec, err := api.Spec()
CallSpec(ord, adv) ==
  /\ Alive /\ calls < MaxCalls
  /\ \E a \in {createOpenAPI(Api(adv), routes, ord)} :
       Generated("Spec", a, NoBytes)

\* json.Marshal / yaml.Marshal of the document.
Marshal(format, doc) == [present |-> TRUE, format |-> format, doc |-> doc]

\* The document serialized whatever Spec returned, its error dropped.
SerializedAnyway(format, a) ==
  [a |-> [a EXCEPT !.err = NoErr], bytes |-> Marshal(format, a.doc)]

\* What Json and Yaml return for what Spec returned.
Serialized(format, a) ==
  IF a.err # NoErr
  THEN [a |-> [a EXCEPT !.err = Wrap("create spec err", a.err)],
        bytes |-> NoBytes]
  ELSE [a |-> a, bytes |-> Marshal(format, a.doc)]

\* data, err := api.Json()
CallJson(ord, adv) ==
  /\ Alive /\ calls < MaxCalls
  /\ \E a \in {createOpenAPI(Api(adv), routes, ord)} :
       \E x \in {Serialized("json", a)} : Generated("Json", x.a, x.bytes)

\* data, err := api.Yaml()
CallYaml(ord, adv) ==
  /\ Alive /\ calls < MaxCalls
  /\ \E a \in {createOpenAPI(Api(adv), routes, ord)} :
       \E x \in {Serialized("yaml", a)} : Generated("Yaml", x.a, x.bytes)

Next ==
  \/ \E slot \in ResponseSlots, t \in RouteTypes :
       HasResponseModel(slot[1], slot[2], slot[3], t)
  \/ \E slot \in RequestSlots, t \in RequestTypes :
       HasRequestModel(slot[1], slot[2], t)
  \/ \E t \in DirectTypes : \E adv \in AdvChoices({t}) :
       CallRegisterModel(t, <<>>, adv)
  \/ \E ord \in Orders(routes), adv \in AdvChoices(RouteModels) :
       CallSpec(ord, adv)
  \/ \E ord \in Orders(routes), adv \in AdvChoices(RouteModels) :
       CallJson(ord, adv)
  \/ \E ord \in Orders(routes), adv \in AdvChoices(RouteModels) :
       CallYaml(ord, adv)

Spec == Init /\ [][Next]_vars

\* An API instance without routes, on which models are registered by hand.
NextRegister ==
  \/ \E paths \in StripChoices : SetStripPkgPaths(paths)
  \/ \E t \in ModelTypes : \E adv \in AdvChoices({t}) :
       CallRegisterModel(t, <<>>, adv)
  \/ \E t \in OptionTypes, opts \in OptChoices :
       CallRegisterModel(t, opts, 0)

SpecRegister == Init /\ [][NextRegister]_vars

(***************************************************************************)
(* What the properties below speak of.                                     *)
(***************************************************************************)
GenerationOps == {"Spec", "Json", "Yaml"}

\* The last call was a generation, and it returned without an error.
Succeeded == ret.op \in GenerationOps /\ ret.err = NoErr

\* The registry entries that hold the schema derived for type t.
EntriesFor(t) == {n \in DOMAIN models : models[n].origin = t}

\* The routes that have t as the model of one of their responses.
RoutesWith(t) ==
  {k \in DOMAIN routes :
     \E st \in DOMAIN routes[k].responses : routes[k].responses[st] = t}

\* The schema references the document gives the responses whose model is t.
ResponseRefs(doc, t) ==
  UNION {{doc.paths[k[1]][k[2]].responses[st] :
            st \in {x \in DOMAIN routes[k].responses :
                      routes[k].responses[x] = t}} :
         k \in RoutesWith(t)}

\* The named struct types among the route models.
NamedStructs ==
  {t \in TypeIds : Types[t].kind = "struct" /\ Types[t].name # <<>>}

\* C1: when the same named struct type is the response model of two
\* different routes, a successful generation leaves exactly one registry
\* entry for it, and the responses of both routes refer to one and the same
\* component name, which is in components.schemas.
C1_OneEntryPerSharedType ==
  Succeeded =>
    \A t \in NamedStructs :
      Cardinality(RoutesWith(t)) >= 2 =>
        /\ Cardinality(EntriesFor(t)) = 1
        /\ \E n \in DOMAIN ret.doc.components :
             ResponseRefs(ret.doc, t) = {[isRef |-> TRUE, name |-> n]}

\* The types that lie on a reference cycle of the type graph.
CyclicTypes == {t \in TypeIds : t \in Closure(Refers(t))}

\* C2: RegisterModel on a struct type that lies on a reference cycle
\* terminates: the call returns to its caller (the process does not die of
\* unbounded recursion).
C2_CyclicTypesTerminate ==
  ret.arg \in CyclicTypes => ret.op # "crash"


\* The last call was RegisterModel on a struct type, it returned without an
\* error, and the schema it returned is the one derived for that type.
DerivedStruct ==
  /\ ret.op = "RegisterModel"
  /\ Types[ret.arg].kind = "struct"
  /\ ret.err = NoErr
  /\ ret.schema # NoSchema
  /\ ret.schema.origin = ret.arg

\* The name a field is serialized under: the json tag's name, else the Go name.
SerializedName(f) == IF f.tag = "" THEN f.name ELSE f.tag

\* C3: for every exported, non-embedded field of a struct, the serialized
\* name is in the schema's required list if and only if the field's type is
\* not a pointer and its json tag has no omitempty option.
C3_RequiredIffNotPointerNotOmitempty ==
  DerivedStruct =>
    \A i \in 1..Len(Types[ret.arg].fields) :
      LET f == Types[ret.arg].fields[i]
      IN (f.exported /\ ~f.anonymous) =>
           ((SerializedName(f) \in SeqRange(ret.schema.required))
              <=> (Types[f.type].kind # "ptr" /\ ~f.omitempty))


\* The struct type a field embeds: the field's type, or its pointee.
EmbeddedType(f) ==
  IF Types[f.type].kind = "ptr" THEN Types[f.type].elem ELSE f.type

\* The anonymously embedded struct fields of type t.
EmbeddedFields(t) ==
  {f \in SeqRange(Types[t].fields) :
     f.anonymous /\ f.exported /\ Types[EmbeddedType(f)].kind = "struct"}

\* The schema of type e on its own: what RegisterModel derives for it on an
\* instance with an empty registry.
OwnSchema(e) ==
  RegisterModel([Api(0) EXCEPT !.models = <<>>], e, <<>>, 1).schema

\* Type t also uses e otherwise than by embedding it: through a named field.
UsedByName(t, e) ==
  \E f \in SeqRange(Types[t].fields) :
    f.exported /\ ~f.anonymous /\ e \in Reach(f.type)

\* The parent's schema carries the embedded type's properties and required
\* names among its own, and has no property for the embedded field itself.
Flattened(schema, f) ==
  /\ DOMAIN OwnSchema(EmbeddedType(f)).props \subseteq DOMAIN schema.props
  /\ SeqRange(OwnSchema(EmbeddedType(f)).required) \subseteq SeqRange(schema.required)
  /\ f.name \notin DOMAIN schema.props

\* The embedded type had no registry entry before the call.
Unregistered(f) == getModelName(Api(0), EmbeddedType(f)).name \notin DOMAIN ret.pre

\* The embedded type has no registry entry now.
Retracted(f) == getModelName(Api(0), EmbeddedType(f)).name \notin DOMAIN models

Attachments ==
  {<<k, 0>> : k \in {x \in DOMAIN routes : routes[x].request # NoType}}
    \cup UNION {{<<k, st>> : st \in DOMAIN routes[k].responses} : k \in DOMAIN routes}

\* The last call was a generation in which every model of the route table
\* was resolved, each without an error.
AllResolved ==
  /\ ret.op \in GenerationOps
  /\ Len(ret.visits) = Cardinality(Attachments)
  /\ \A i \in 1..Len(ret.visits) : ret.visits[i].err = NoErr

\* C5: when every model of the route table resolves without error, every
\* schema reference of the assembled document names a component that is in
\* components.schemas, and the reference resolution pass does not fail.
C5_NoDanglingReference ==
  AllResolved => (Dangling(ret.doc) = {} /\ ret.err = NoErr)


\* Type t is a map with a non-string key, or contains one at some depth.
ContainsBadMap(t) ==
  \E u \in Reach(t) :
    Types[u].kind = "map" /\ Types[Types[u].key].kind # "string"

\* err is the map-key error, bare or wrapped (errors.Is would find it), and
\* it names the key type.
IsMapKeyError(err) ==
  /\ Len(err) >= 2
  /\ err[Len(err) - 1] = ErrMapKey("int")[1]
  /\ Types[err[Len(err)]].kind # "string"

\* C6: RegisterModel on a type that is, or contains at any depth, a map with
\* a non-string key fails, and the error it returns is the map-key error
\* naming the key type.
C6_MapKeyError ==
  (ret.op = "RegisterModel" /\ ContainsBadMap(ret.arg)) =>
    (ret.err # NoErr /\ IsMapKeyError(ret.err))

\* The type behind a pointer type (the type itself when it is no pointer).
RECURSIVE Base(_)
Base(t) == IF Types[t].kind = "ptr" THEN Base(Types[t].elem) ELSE t

\* Type t, or its pointee, has a declared name.
Named(t) == Types[Base(t)].name # <<>>

\* The last RegisterModel call was served an entry the registry already held.
ServedFromRegistry ==
  /\ ret.op = "RegisterModel"
  /\ ret.err = NoErr
  /\ ret.name \in DOMAIN ret.pre
  /\ ret.schema = ret.pre[ret.name]

\* C7: RegisterModel on a non-anonymous type is never served the registry
\* entry that was created for a different type (a pointer type is served its
\* pointee's entry).
C7_NoNameCollision ==
  (ServedFromRegistry /\ Named(ret.arg)) =>
    ret.schema.origin = Base(ret.arg)

\* C8: after Spec() returns successfully, the key set of components.schemas
\* equals the key set of the registry.
C8_ComponentsEqualRegistry ==
  (ret.op = "Spec" /\ ret.err = NoErr) =>
    DOMAIN ret.doc.components = DOMAIN models

\* A new API instance with the present settings.
FreshApi ==
  [models |-> <<>>, strip |-> strip, hook |-> hook, comments |-> {},
   now |-> 0, adv |-> 0]

\* C9: for a route table of non-anonymous types, any other visiting order of
\* the patterns, methods and statuses gives what the generation just made
\* on the new instance gave: the same success or failure, the same registry
\* keys and the same schema under each key.
C9_OrderIndependent ==
  (calls = 1 /\ ret.op \in GenerationOps /\ \A t \in RouteModels : Named(t)) =>
    \A ord \in Orders(routes) :
      LET a == createOpenAPI(FreshApi, routes, ord)
      IN /\ (a.err = NoErr) <=> (ret.err = NoErr)
         /\ a.api.models = models


\* C10: if resolving a request or response model fails, generation stops at
\* that failure (it is the last model visited), Spec() returns that error,
\* and Json() and Yaml() return no bytes and an error that wraps it.
C10_ResolutionErrorPropagates ==
  \A i \in 1..Len(ret.visits) :
    ret.visits[i].err # NoErr =>
      /\ ret.op \in GenerationOps
      /\ i = Len(ret.visits)
      /\ ret.err # NoErr
      /\ ret.op = "Spec" => ret.err = ret.visits[i].err
      /\ ret.op \in {"Json", "Yaml"} =>
           /\ ~ret.bytes.present
           /\ ret.err = Wrap("create spec err", ret.visits[i].err)

\* C10's case: Yaml() on a route table whose second model visited fails to
\* resolve, after the first one resolved.
C10_Witness ==
  /\ ret.op = "Yaml"
  /\ Len(ret.visits) >= 2
  /\ ret.visits[1].err = NoErr
  /\ ret.visits[Len(ret.visits)].err # NoErr
  /\ ret.err = Wrap("create spec err", ret.visits[Len(ret.visits)].err)
  /\ ~ret.bytes.present


(***************************************************************************)
(* Routes with declared parameters: an API instance whose routes are built *)
(* with HasQueryParameter, HasPathParameter, HasHeaderParameter and Merge. *)
(***************************************************************************)
\* No more than this many parameters are declared on one API instance.
MaxParams == 3

ParamSlots == {<<"/a", "GET">>, <<"/b", "POST">>}

\* In byte order: Id < i < id.
ParamNames == {<<"i","d">>, <<"I","d">>, <<"i">>}

\* What is declared for a parameter: a PathParam, QueryParam or HeaderParam
\* value (a PathParam has no Required and no AllowEmpty, a HeaderParam no
\* Regexp and no AllowEmpty: the fields are there and not read).
ParamChoices ==
  {[description |-> "", regexp |-> "", required |-> FALSE,
    allowEmpty |-> FALSE, type |-> "", custom |-> FALSE],
   [description |-> "d", regexp |-> "^x$", required |-> TRUE,
    allowEmpty |-> TRUE, type |-> "integer", custom |-> TRUE]}

\* The number of parameters declared in a route table.
ParamCount(rs) ==
  Cardinality(UNION {{<<k, loc, n>> : n \in DOMAIN rs[k].params[loc]}
                       : k \in DOMAIN rs, loc \in {"path", "query", "header"}})

\* api.Route(method, pattern): the route, made if it is not there.
RouteOf(pattern, method) ==
  IF <<pattern, method>> \in DOMAIN routes THEN routes[<<pattern, method>>]
  ELSE NewRoute

\* api.Route(method, pattern).HasPathParameter(name, p)
HasPathParameter(pattern, method, name, p) ==
  /\ Alive /\ calls = 0
  /\ routes' = (<<pattern, method>> :>
                  [RouteOf(pattern, method) EXCEPT
                     !.params.path = (name :> p) @@ @]) @@ routes
  /\ ParamCount(routes') <= MaxParams
  /\ UNCHANGED <<models, strip, hook, comments, now, ret, calls>>

\* api.Route(method, pattern).HasQueryParameter(name, q)
HasQueryParameter(pattern, method, name, q) ==
  /\ Alive /\ calls = 0
  /\ routes' = (<<pattern, method>> :>
                  [RouteOf(pattern, method) EXCEPT
                     !.params.query = (name :> q) @@ @]) @@ routes
  /\ ParamCount(routes') <= MaxParams
  /\ UNCHANGED <<models, strip, hook, comments, now, ret, calls>>

\* api.Route(method, pattern).HasHeaderParameter(name, h)
HasHeaderParameter(pattern, method, name, h) ==
  /\ Alive /\ calls = 0
  /\ routes' = (<<pattern, method>> :>
                  [RouteOf(pattern, method) EXCEPT
                     !.params.header = (name :> h) @@ @]) @@ routes
  /\ ParamCount(routes') <= MaxParams
  /\ UNCHANGED <<models, strip, hook, comments, now, ret, calls>>

\* mergeMap(into, from): the entries of from whose key into does not have.
mergeMap(into, from) == into @@ from

\* api.Merge(r)
Merge(r) ==
  /\ Alive /\ calls = 0
  /\ \E toUpdate \in {RouteOf(r.pattern, r.method)} :
       routes' = (<<r.pattern, r.method>> :>
                    [params |-> [path |-> mergeMap(toUpdate.params.path, r.params.path),
                                 query |-> mergeMap(toUpdate.params.query, r.params.query),
                                 header |-> mergeMap(toUpdate.params.header, r.params.header)],
                     request |-> IF toUpdate.request = NoType THEN r.request
                                 ELSE toUpdate.request,
                     responses |-> mergeMap(toUpdate.responses, r.responses)])
                   @@ routes
  /\ ParamCount(routes') <= MaxParams
  /\ UNCHANGED <<models, strip, hook, comments, now, ret, calls>>

\* The routes an adapter merges in: GET /a with the path parameter id, the
\* query parameter Id and the response model E.
MergeRoutes ==
  {[pattern |-> "/a", method |-> "GET",
    params |-> [path |-> (<<"i","d">> :> p), query |-> (<<"I","d">> :> p),
                header |-> <<>>],
    request |-> NoType, responses |-> (200 :> "E")] : p \in ParamChoices}

NextParams ==
  \/ \E slot \in ParamSlots, n \in ParamNames, p \in ParamChoices :
       HasPathParameter(slot[1], slot[2], n, p)
  \/ \E slot \in ParamSlots, n \in ParamNames, q \in ParamChoices :
       HasQueryParameter(slot[1], slot[2], n, q)
  \/ \E slot \in ParamSlots, n \in ParamNames, h \in ParamChoices :
       HasHeaderParameter(slot[1], slot[2], n, h)
  \/ \E r \in MergeRoutes : Merge(r)
  \/ \E ord \in Orders(routes) : CallSpec(ord, 0)

SpecParams == Init /\ [][NextParams]_vars

\* The parameter list the document gives route k.
ParameterList(k) == ret.doc.paths[k[1]][k[2]].parameters

\* The location and name of each parameter of a list, in the list's order.
InAndName(list) == [i \in 1..Len(list) |-> <<list[i].in, list[i].name>>]

\* C11: for each route of a generated document, the operation's parameter
\* list holds exactly one parameter for every declared query, path and
\* header parameter name and nothing else, a declared Regexp is the pattern
\* of the query or path parameter's schema, the names ascend (in byte
\* order) within each location, however the keys were handed to the sort,
\* and two routes that declare the same names have their parameters in the
\* same order (the same list when the declarations are equal).
C11_ParametersSortedByName ==
  (ret.op \in GenerationOps /\ ret.err = NoErr) =>
    \A k \in DOMAIN routes :
      \E list \in {ParameterList(k)}, p \in {routes[k].params} :
        /\ \A loc \in {"query", "path", "header"} : \A n \in DOMAIN p[loc] :
             Cardinality({i \in 1..Len(list) :
                            list[i].in = loc /\ list[i].name = n}) = 1
        /\ \A i \in 1..Len(list) :
             /\ list[i].in \in {"query", "path", "header"}
             /\ list[i].name \in DOMAIN p[list[i].in]
             /\ list[i].in \in {"query", "path"} =>
                  list[i].schema.pattern = p[list[i].in][list[i].name].regexp
        /\ \A i, j \in 1..Len(list) :
             (i < j /\ list[i].in = list[j].in) =>
               StrLess(list[i].name, list[j].name)
        /\ \A loc \in {"query", "path", "header"} :
             \A q \in Perms(DOMAIN p[loc]) :
               SortSlice(q) = getSortedKeys(p[loc])
        /\ \A k2 \in DOMAIN routes :
             /\ (\A loc \in {"query", "path", "header"} :
                   DOMAIN routes[k2].params[loc] = DOMAIN p[loc])
                  => InAndName(ParameterList(k2)) = InAndName(list)
             /\ routes[k2].params = p => ParameterList(k2) = list

\* C11's case: a document was generated for a route that declares two
\* query parameters and a path parameter, one of them with a Regexp.
C11_Witness ==
  /\ ret.op = "Spec" /\ ret.err = NoErr
  /\ \E k \in DOMAIN routes :
       /\ Cardinality(DOMAIN routes[k].params.query) = 2
       /\ Cardinality(DOMAIN routes[k].params.path) = 1
       /\ Len(ParameterList(k)) = 3
       /\ ParameterList(k)[1].name = <<"I","d">>
       /\ ParameterList(k)[2].name = <<"i">>
       /\ \E i \in 1..3 : ParameterList(k)[i].schema.pattern = "^x$"


(***************************************************************************)
(* The naming engine on its own: normalizeTypeName called with package     *)
(* paths and type names as reflect gives them, while the clock runs.       *)
(* ret.prev holds the call before the last one: its arguments and result.  *)
(***************************************************************************)
\* "", p/a-b, s/m (stripped when StripPkgPaths is set).
NamingPkgs == {<<>>, PkgAB, PkgSM}

\* T, Page[p/a-b.T], A[B[C]], L·1 (a type declared in a function), and
\* Body[struct { X int }].
NamingNames ==
  {<<"T">>,
   <<"P","a","g","e","[","p","/","a","-","b",".","T","]">>,
   <<"A","[","B","[","C","]","]">>,
   <<"L","·","1">>,
   <<"B","o","d","y","[","s","t","r","u","c","t"," ","{"," ","X"," ","i","n","t"," ","}","]">>}

\* Time passes between two calls.
Tick ==
  /\ Alive /\ now < MaxClock
  /\ now' = now + 1
  /\ UNCHANGED <<models, strip, hook, comments, routes, ret, calls>>

\* api.normalizeTypeName(pkgPath, name)
CallNormalizeTypeName(pkgPath, name, adv) ==
  /\ Alive /\ calls < MaxCalls
  /\ \E r \in {normalizeTypeName(Api(adv), pkgPath, name)} :
       /\ now' = r.now
       /\ ret' = [NoRet EXCEPT
                    !.op = "normalizeTypeName", !.pkgPath = pkgPath,
                    !.typeName = name, !.name = r.name, !.pre = models,
                    !.prev = IF ret.op = "normalizeTypeName"
                             THEN <<[pkgPath |-> ret.pkgPath,
                                     typeName |-> ret.typeName,
                                     name |-> ret.name]>>
                             ELSE <<>>]
  /\ calls' = calls + 1
  /\ UNCHANGED <<models, strip, hook, comments, routes>>

NextNaming ==
  \/ \E paths \in StripChoices : SetStripPkgPaths(paths)
  \/ Tick
  \/ \E pkgPath \in NamingPkgs, name \in NamingNames :
       \E adv \in IF now < MaxClock THEN {0, 1} ELSE {0} :
         CallNormalizeTypeName(pkgPath, name, adv)

SpecNaming == Init /\ [][NextNaming]_vars

RECURSIVE Contains(_, _)
\* s has sub as a substring.
Contains(s, sub) ==
  IF Len(s) < Len(sub) THEN FALSE
  ELSE HasPrefix(s, sub) \/ Contains(Tail(s), sub)

\* The last two calls of normalizeTypeName had the same arguments.
SameArguments ==
  /\ ret.op = "normalizeTypeName"
  /\ Len(ret.prev) = 1
  /\ ret.prev[1].pkgPath = ret.pkgPath
  /\ ret.prev[1].typeName = ret.typeName

\* C12: two calls of the naming function with the same package path and the
\* same non-empty declared type name that carries no inline anonymous
\* struct ("struct {...}"), on the same API instance, return the same
\* component name, whatever the clock did in between.
C12_NamingDeterministic ==
  (/\ SameArguments
   /\ ret.typeName # <<>>
   /\ ~Contains(ret.typeName, <<"s","t","r","u","c","t"," ","{">>)) =>
    ret.name = ret.prev[1].name

\* C12's case: Page[p/a-b.T] of package p/a-b was named twice, the clock
\* having advanced, and was given p_a_b_Page_p_a_b_T both times.
C12_Witness ==
  /\ SameArguments
  /\ now > 0
  /\ ret.pkgPath = PkgAB
  /\ ret.typeName = <<"P","a","g","e","[","p","/","a","-","b",".","T","]">>
  /\ ret.name = <<"p","_","a","_","b","_","P","a","g","e","_","p","_","a",
                  "_","b","_","T">>
  /\ ret.prev[1].name = ret.name


\* The referencing rule as the specification words it: the schema is
\* object-shaped without an open additionalProperties, or carries enum values.
ObjectOrEnum(s) ==
  \/ s.type = "object" /\ s.addl = NoRef /\ ~s.addlHas
  \/ Len(s.enum) > 0

\* C13: after a successful RegisterModel, the returned schema is in the
\* registry under the returned name, and a use site gets a symbolic
\* reference to it, if and only if the schema is object-shaped without an
\* open additionalProperties or carries enum values; so the schema of a
\* primitive, array, map or interface type (without enum values) is never
\* in the registry and is inlined.
C13_RegisteredIffObjectOrEnum ==
  (ret.op = "RegisterModel" /\ ret.err = NoErr) =>
    /\ (ret.name \in DOMAIN models /\ models[ret.name] = ret.schema)
         <=> ObjectOrEnum(ret.schema)
    /\ getSchemaReferenceOrValue(ret.name, ret.schema).isRef
         <=> ObjectOrEnum(ret.schema)
    /\ (Types[ret.arg].kind \notin {"struct", "ptr"} /\ ret.schema.enum = <<>>)
         => ret.name \notin DOMAIN models


\* C14: a RegisterModel call leaves every entry that was in the registry
\* before the call present under the same name after it (what a call
\* removes was registered during that call).
C14_EntriesNeverRemoved ==
  ret.op = "RegisterModel" => DOMAIN ret.pre \subseteq DOMAIN models


\* C15: a successful RegisterModel on a pointer type returns the pointee's
\* component name and a schema marked nullable, whether or not the pointee
\* had a registry entry before the call.
C15_PointerNullableWithPointeeName ==
  (ret.op = "RegisterModel" /\ ret.err = NoErr /\ Types[ret.arg].kind = "ptr") =>
    /\ ret.name = getModelName(Api(0), Base(ret.arg)).name
    /\ ret.schema.nullable


\* C16: a successful RegisterModel on a slice type returns a nullable array
\* schema whose items is the element type's schema, by reference to the
\* element's registry entry or inline, whatever was resolved before on the
\* same API instance.
C16_SliceIsNullableArrayOfElement ==
  (ret.op = "RegisterModel" /\ ret.err = NoErr /\ Types[ret.arg].kind = "slice") =>
    /\ ret.schema.type = "array"
    /\ ret.schema.nullable
    /\ IF ret.schema.items.isRef
       THEN /\ ret.schema.items.name
                 = getModelName(Api(0), Types[ret.arg].elem).name
            /\ ret.schema.items.name \in DOMAIN models
       ELSE /\ "schema" \in DOMAIN ret.schema.items
            /\ ret.schema.items.schema.origin = Types[ret.arg].elem


(***************************************************************************)
(* An API instance made with WithApplyCustomSchemaToType, on which models  *)
(* are registered with call-site options.                                  *)
(***************************************************************************)
HookTypes == {"T", "PtrT", "Color", "string", "PtrString", "SliceT"}

HookOpts == {<<>>, <<"nullable">>, <<"enum", "nullable">>}

\* NewAPI(name, WithApplyCustomSchemaToType(f))
WithApplyCustomSchemaToType(f) ==
  /\ Alive /\ calls = 0 /\ routes = <<>> /\ hook = "none"
  /\ hook' = f
  /\ UNCHANGED <<models, strip, comments, routes, now, ret, calls>>

NextHook ==
  \/ WithApplyCustomSchemaToType("hooked")
  \/ \E t \in HookTypes, opts \in HookOpts : CallRegisterModel(t, opts, 0)

SpecHook == Init /\ [][NextHook]_vars

\* The customisations of RegisterModel(t, opts...), in the order given for
\* them: the global hook if set, the model's own callback, the options.
Customisations(t, opts) ==
  (IF hook # "none" THEN << <<"hook", t>> >> ELSE <<>>)
    \o (IF Types[t].custom # "none" THEN << <<"custom", t>> >> ELSE <<>>)
    \o [i \in 1..Len(opts) |-> <<"opt", opts[i]>>]

\* C17: when RegisterModel derives a schema (it found no entry under its
\* type's name and returned without an error), the last things done to the
\* schema before the call's registration decision are the global hook (if
\* set), then the model's own callback, then the call's options in argument
\* order; and nothing customises a schema after a registration decision was
\* taken for it.
C17_CustomisedBeforeRegistrationDecision ==
  (/\ ret.op = "RegisterModel"
   /\ ret.err = NoErr
   /\ getModelName(Api(0), ret.arg).name \notin DOMAIN ret.pre) =>
    \E tr \in {ret.schema.trace}, cs \in {Customisations(ret.arg, ret.opts)} :
      /\ Len(tr) > Len(cs)
      /\ tr[Len(tr)] = <<"decide", ret.arg>>
      /\ SubSeq(tr, Len(tr) - Len(cs), Len(tr) - 1) = cs
      /\ \A i, j \in 1..Len(tr) :
           (i < j /\ tr[i][1] = "decide") => tr[j][1] = "decide"


\* The fields of struct type t whose type is a struct without a declared
\* name.
AnonymousStructFields(t) ==
  {f \in SeqRange(Types[t].fields) :
     f.exported /\ ~f.anonymous /\ Types[f.type].kind = "struct"
       /\ Types[f.type].name = <<>>}

\* C18: two distinct anonymous struct types resolved in the same
\* RegisterModel call get distinct component names, and each name's
\* registry entry is the schema derived for its own type, also when the
\* clock gives the same microsecond at every reading of the call.
C18_AnonymousStructsDistinct ==
  DerivedStruct =>
    \A f, g \in AnonymousStructFields(ret.arg) :
      f.type # g.type =>
        \E rf \in {ret.schema.props[SerializedName(f)]},
           rg \in {ret.schema.props[SerializedName(g)]} :
          /\ rf.isRef /\ rg.isRef
          /\ rf.name # rg.name
          /\ rf.name \in DOMAIN models
          /\ models[rf.name].origin = f.type


\* C19: the component name normalizeTypeName returns never ends with the
\* separator "_" or with ".".
C19_NoTrailingSeparator ==
  ret.op = "normalizeTypeName" =>
    (ret.name = <<>> \/ ret.name[Len(ret.name)] \notin {"_", "."})


RECURSIVE Untraced(_)
\* A schema reference and a schema as the Go values are: without the traces.
UntracedRef(ref) ==
  IF "schema" \in DOMAIN ref THEN [ref EXCEPT !.schema = Untraced(@)] ELSE ref

Untraced(s) ==
  IF s = NoSchema THEN s
  ELSE [s EXCEPT !.trace = <<>>,
                 !.props = [n \in DOMAIN s.props |-> UntracedRef(s.props[n])],
                 !.items = UntracedRef(@),
                 !.addl = UntracedRef(@)]

\* A registry, or the components of a document, without the traces.
UntracedAll(schemas) == [n \in DOMAIN schemas |-> Untraced(schemas[n])]

\* C20: when Spec() is called twice in a row on an API instance without
\* anonymous struct types among its models, the second call leaves the
\* schema registry as it found it and returns a document with the same
\* paths (with their operations' schemas) and the same components as the
\* first.
C20_SpecIdempotent ==
  (ret.op = "Spec" /\ Len(ret.prev) = 1 /\ ret.prev[1].op = "Spec") =>
    LET UntracedPaths(paths) ==
          [p \in DOMAIN paths |->
             [m \in DOMAIN paths[p] |->
                [paths[p][m] EXCEPT
                   !.request = UntracedRef(@),
                   !.responses = [st \in DOMAIN paths[p][m].responses |->
                                    UntracedRef(paths[p][m].responses[st])]]]]
    IN
    /\ UntracedAll(models) = UntracedAll(ret.pre)
    /\ UntracedPaths(ret.doc.paths) = UntracedPaths(ret.prev[1].doc.paths)
    /\ UntracedAll(ret.doc.components)
         = UntracedAll(ret.prev[1].doc.components)

=============================================================================
